---- MODULE Spec2Model ----
(***************************************************************************)
(* Credential verifier guest program (packages/zkp-rust/program/src/main.rs)*)
(* and the decoder of its public values (script/src/bin/execute.rs).       *)
(*                                                                         *)
(* One run of main() is a straight-line program: six assert! statements,   *)
(* the hash, the output record and five io::commit calls.  The program     *)
(* counter pc names the statement about to execute; a failed assert! is a  *)
(* panic, recorded with the message of the assert! that raised it.         *)
(***************************************************************************)
EXTENDS Integers, Sequences, FiniteSets

(* ------------------------------ bounds -------------------------------- *)
MaxTime == 2        \* timestamps range over 0..MaxTime
MaxType == 6        \* credential_type ranges over 0..MaxType
MaxClaims == 3      \* claim_count header values 0..MaxClaims
MaxPayload == 1     \* claim payload lengths 0..MaxPayload

(* ------------------------- program constants -------------------------- *)
SubjectLen == 20
HashLen == 32
MinSignatureLen == 64
CompressedKeyLen == 33
UncompressedKeyLen == 65
HeaderLen == 8
SupportedVersion == 1

MsgCredentialType == "Invalid credential type"
MsgIssuance == "Invalid issuance time"
MsgClockSkew == "Current time before issuance"
MsgExpired == "Credential has expired"
MsgSignature == "Invalid signature"
MsgClaims == "Invalid credential claims"
NoPanic == ""

(* ------------------------------ bytes --------------------------------- *)
Fill(n, b) == [k \in 1..n |-> b]

RECURSIVE to_le_bytes(_, _)
to_le_bytes(v, width) ==
    IF width = 0 THEN <<>>
    ELSE <<v % 256>> \o to_le_bytes(v \div 256, width - 1)

RECURSIVE to_be_bytes(_, _)
to_be_bytes(v, width) ==
    IF width = 0 THEN <<>>
    ELSE to_be_bytes(v \div 256, width - 1) \o <<v % 256>>

RECURSIVE from_le_bytes(_)
from_le_bytes(b) ==
    IF b = <<>> THEN 0
    ELSE Head(b) + 256 * from_le_bytes(Tail(b))

RECURSIVE from_be_bytes(_)
from_be_bytes(b) ==
    IF b = <<>> THEN 0
    ELSE from_be_bytes(SubSeq(b, 1, Len(b) - 1)) * 256 + b[Len(b)]

(* SHA-256 of the sha2 crate, abstracted to a deterministic digest of      *)
(* HashLen bytes that depends on every absorbed byte and on its position.  *)
(* Absorb sums the position-weighted bytes of bytes[lo..hi], halving the   *)
(* range at each level.                                                    *)
RECURSIVE Absorb(_, _, _)
Absorb(bytes, lo, hi) ==
    IF lo > hi THEN 0
    ELSE IF lo = hi THEN ((bytes[lo] + 1) * (lo * lo + 1)) % 65521
    ELSE LET mid == (lo + hi) \div 2
         IN  (Absorb(bytes, lo, mid) + Absorb(bytes, mid + 1, hi)) % 65521

Sha256(bytes) ==
    LET h == Absorb(bytes, 1, Len(bytes))
    IN  [k \in 1..HashLen |-> (h + k * (1 + (h % 251))) % 256]

(* --------------------------- pure functions --------------------------- *)
(* Variant: accepts only the lengths the comment at main.rs:59 names. *)
verify_signature_exact(message, signature, pubkey) ==
    IF signature = <<>> \/ (Len(signature) # MinSignatureLen /\ Len(signature) # MinSignatureLen + 1)
    THEN FALSE
    ELSE IF pubkey = <<>> \/ (Len(pubkey) # CompressedKeyLen /\ Len(pubkey) # UncompressedKeyLen)
         THEN FALSE
    ELSE TRUE

verify_signature(message, signature, pubkey) ==
    IF signature = <<>> \/ Len(signature) < MinSignatureLen THEN FALSE
    ELSE IF pubkey = <<>> \/ (Len(pubkey) # CompressedKeyLen /\ Len(pubkey) # UncompressedKeyLen)
         THEN FALSE
    ELSE TRUE

(* Variant: the hasher is updated with credential_data before the type. *)
compute_credential_hash_reordered(subject, credential_type, credential_data, issuer_pubkey) ==
    Sha256(subject \o credential_data \o to_be_bytes(credential_type, 4) \o issuer_pubkey)

compute_credential_hash(subject, credential_type, credential_data, issuer_pubkey) ==
    Sha256(subject \o to_be_bytes(credential_type, 4) \o credential_data \o issuer_pubkey)

(* Variant: the version test is missing. *)
validate_credential_claims_any_version(credential_data, credential_type) ==
    IF Len(credential_data) < HeaderLen THEN FALSE
    ELSE LET claim_count == from_be_bytes(SubSeq(credential_data, 5, 8))
         IN  CASE credential_type = 1 -> claim_count >= 1
               [] credential_type = 2 -> claim_count >= 2
               [] credential_type = 3 -> claim_count >= 2
               [] credential_type = 4 -> claim_count >= 3
               [] credential_type = 5 -> claim_count >= 1
               [] OTHER -> claim_count >= 1

(* Variant: the thresholds are compared with > instead of >=. *)
validate_credential_claims_strict(credential_data, credential_type) ==
    IF Len(credential_data) < HeaderLen THEN FALSE
    ELSE LET version == from_be_bytes(SubSeq(credential_data, 1, 4))
             claim_count == from_be_bytes(SubSeq(credential_data, 5, 8))
         IN  IF version # SupportedVersion THEN FALSE
             ELSE CASE credential_type = 1 -> claim_count > 1
                    [] credential_type = 2 -> claim_count > 2
                    [] credential_type = 3 -> claim_count > 2
                    [] credential_type = 4 -> claim_count > 3
                    [] credential_type = 5 -> claim_count > 1
                    [] OTHER -> claim_count > 1

validate_credential_claims(credential_data, credential_type) ==
    IF Len(credential_data) < HeaderLen THEN FALSE
    ELSE LET version == from_be_bytes(SubSeq(credential_data, 1, 4))
             claim_count == from_be_bytes(SubSeq(credential_data, 5, 8))
         IN  IF version # SupportedVersion THEN FALSE
             ELSE CASE credential_type = 1 -> claim_count >= 1
                    [] credential_type = 2 -> claim_count >= 2
                    [] credential_type = 3 -> claim_count >= 2
                    [] credential_type = 4 -> claim_count >= 3
                    [] credential_type = 5 -> claim_count >= 1
                    [] OTHER -> claim_count >= 1

(* The conditions of main's assert! statements. *)
CredentialTypeOk(i) == i.credential_type > 0
(* Variant: the issuance assert! is missing. *)
IssuedAtOk_unchecked(i) == TRUE

IssuedAtOk(i) == i.issued_at > 0
CurrentTimeOk(i) == i.current_time >= i.issued_at
(* Variant: the expiry bound is exclusive. *)
ExpiryOk_exclusive(i) == IF i.expires_at > 0 THEN i.current_time < i.expires_at ELSE TRUE

(* Variant: expiry is compared with issued_at instead of current_time. *)
ExpiryOk_issued(i) == IF i.expires_at > 0 THEN i.issued_at <= i.expires_at ELSE TRUE

ExpiryOk(i) == IF i.expires_at > 0 THEN i.current_time <= i.expires_at ELSE TRUE

(* The message main panics with on input i, NoPanic when every assert!     *)
(* holds: the assert! statements in program order.                         *)
PanicOf(i) ==
    IF ~CredentialTypeOk(i) THEN MsgCredentialType
    ELSE IF ~IssuedAtOk(i) THEN MsgIssuance
    ELSE IF ~CurrentTimeOk(i) THEN MsgClockSkew
    ELSE IF ~ExpiryOk(i) THEN MsgExpired
    ELSE IF ~verify_signature(i.credential_data, i.signature, i.issuer_pubkey) THEN MsgSignature
    ELSE IF ~validate_credential_claims(i.credential_data, i.credential_type) THEN MsgClaims
    ELSE NoPanic

(* ------------------------------ inputs -------------------------------- *)
Subjects ==
    { <<18, 52, 86, 120, 144, 18, 52, 86, 120, 144, 18, 52, 86, 120, 144, 18, 52, 86, 120, 144>>,
      Fill(SubjectLen, 171) }

CredentialTypes == 0..MaxType
Times == 0..MaxTime

Payloads == { Fill(n, 9) : n \in 0..MaxPayload }

CredentialDatas ==
    { <<>>, <<0, 0, 0, 1, 0, 0, 0>> }
    \cup { to_be_bytes(v, 4) \o to_be_bytes(c, 4) \o p :
              v \in {1, 2}, c \in 0..MaxClaims, p \in Payloads }
    \cup { <<1, 0, 0, 0>> \o to_be_bytes(MaxClaims, 4),      \* version 2^24
           <<0, 0, 0, 1>> \o <<1, 0, 0, 0>>,                 \* claim_count 2^24
           <<0, 0, 0, 1>> \o <<0, 0, 1, 0>> }                \* claim_count 256

Signatures ==
    { <<>>, Fill(MinSignatureLen - 1, 0), Fill(MinSignatureLen, 0), Fill(MinSignatureLen + 2, 255) }

PublicKeys ==
    { <<>>, Fill(CompressedKeyLen - 1, 2), Fill(CompressedKeyLen, 2), Fill(UncompressedKeyLen, 4) }

Inputs ==
    [ subject : Subjects,
      credential_type : CredentialTypes,
      credential_data : CredentialDatas,
      signature : Signatures,
      issuer_pubkey : PublicKeys,
      issued_at : Times,
      expires_at : Times,
      current_time : Times ]

(* ------------------------------- state -------------------------------- *)
VARIABLES pc, input, signature_valid, claims_valid, credential_hash, output,
          public_values, panic

vars == <<pc, input, signature_valid, claims_valid, credential_hash, output,
          public_values, panic>>

NoOutput ==
    [subject |-> <<>>, credential_type |-> 0, credential_hash |-> <<>>,
     issued_at |-> 0, expires_at |-> 0]

(* Variant: the first commit precedes the claims assert!. *)
Program_commit_early ==
    << "assert_credential_type", "assert_issued_at", "assert_current_time",
       "assert_expiry", "verify_signature", "assert_signature",
       "validate_claims", "compute_hash", "create_output",
       "commit_subject", "assert_claims", "commit_credential_type", "commit_credential_hash",
       "commit_issued_at", "commit_expires_at", "done" >>

(* Variant: the claims are validated before the signature. *)
Program_claims_first ==
    << "assert_credential_type", "assert_issued_at", "assert_current_time",
       "assert_expiry", "validate_claims", "assert_claims",
       "verify_signature", "assert_signature", "compute_hash", "create_output",
       "commit_subject", "commit_credential_type", "commit_credential_hash",
       "commit_issued_at", "commit_expires_at", "done" >>

(* Variant: expires_at is committed before issued_at. *)
Program_commits_swapped ==
    << "assert_credential_type", "assert_issued_at", "assert_current_time",
       "assert_expiry", "verify_signature", "assert_signature",
       "validate_claims", "assert_claims", "compute_hash", "create_output",
       "commit_subject", "commit_credential_type", "commit_credential_hash",
       "commit_expires_at", "commit_issued_at", "done" >>

(* The statements of main in program order. *)
Program ==
    << "assert_credential_type", "assert_issued_at", "assert_current_time",
       "assert_expiry", "verify_signature", "assert_signature",
       "validate_claims", "assert_claims", "compute_hash", "create_output",
       "commit_subject", "commit_credential_type", "commit_credential_hash",
       "commit_issued_at", "commit_expires_at", "done" >>

NextStatement(label) ==
    LET k == CHOOSE n \in 1..Len(Program) : Program[n] = label
    IN  Program[k + 1]

Init ==
    /\ input \in Inputs
    /\ pc = Program[1]
    /\ signature_valid = FALSE
    /\ claims_valid = FALSE
    /\ credential_hash = <<>>
    /\ output = NoOutput
    /\ public_values = <<>>
    /\ panic = NoPanic

(* assert!(cond, msg) at statement label *)
check(label, cond, msg) ==
    /\ pc = label
    /\ IF cond
       THEN pc' = NextStatement(label) /\ panic' = panic
       ELSE pc' = "aborted" /\ panic' = msg
    /\ UNCHANGED <<input, signature_valid, claims_valid, credential_hash, output, public_values>>

CheckCredentialType == check("assert_credential_type", CredentialTypeOk(input), MsgCredentialType)
CheckIssuedAt == check("assert_issued_at", IssuedAtOk(input), MsgIssuance)
CheckCurrentTime == check("assert_current_time", CurrentTimeOk(input), MsgClockSkew)
CheckExpiry == check("assert_expiry", ExpiryOk(input), MsgExpired)

VerifySignature ==
    /\ pc = "verify_signature"
    /\ signature_valid' = verify_signature(input.credential_data, input.signature, input.issuer_pubkey)
    /\ pc' = NextStatement(pc)
    /\ UNCHANGED <<input, claims_valid, credential_hash, output, public_values, panic>>

CheckSignature == check("assert_signature", signature_valid, MsgSignature)

ValidateClaims ==
    /\ pc = "validate_claims"
    /\ claims_valid' = validate_credential_claims(input.credential_data, input.credential_type)
    /\ pc' = NextStatement(pc)
    /\ UNCHANGED <<input, signature_valid, credential_hash, output, public_values, panic>>

CheckClaims == check("assert_claims", claims_valid, MsgClaims)

ComputeHash ==
    /\ pc = "compute_hash"
    /\ credential_hash' = compute_credential_hash(input.subject, input.credential_type,
                                                  input.credential_data, input.issuer_pubkey)
    /\ pc' = NextStatement(pc)
    /\ UNCHANGED <<input, signature_valid, claims_valid, output, public_values, panic>>

CreateOutput ==
    /\ pc = "create_output"
    /\ output' = [subject |-> input.subject,
                  credential_type |-> input.credential_type,
                  credential_hash |-> credential_hash,
                  issued_at |-> input.issued_at,
                  expires_at |-> input.expires_at]
    /\ pc' = NextStatement(pc)
    /\ UNCHANGED <<input, signature_valid, claims_valid, credential_hash, public_values, panic>>

(* sp1_zkvm::io::commit(&value): appends the serialized value to the       *)
(* public values stream; byte arrays raw, integers little-endian.          *)
commit(label, bytes) ==
    /\ pc = label
    /\ public_values' = Append(public_values, bytes)
    /\ pc' = NextStatement(label)
    /\ UNCHANGED <<input, signature_valid, claims_valid, credential_hash, output, panic>>

CommitSubject == commit("commit_subject", output.subject)
CommitCredentialType == commit("commit_credential_type", to_le_bytes(output.credential_type, 4))
CommitCredentialHash == commit("commit_credential_hash", output.credential_hash)
CommitIssuedAt == commit("commit_issued_at", to_le_bytes(output.issued_at, 8))
CommitExpiresAt == commit("commit_expires_at", to_le_bytes(output.expires_at, 8))

Next ==
    \/ CheckCredentialType
    \/ CheckIssuedAt
    \/ CheckCurrentTime
    \/ CheckExpiry
    \/ VerifySignature
    \/ CheckSignature
    \/ ValidateClaims
    \/ CheckClaims
    \/ ComputeHash
    \/ CreateOutput
    \/ CommitSubject
    \/ CommitCredentialType
    \/ CommitCredentialHash
    \/ CommitIssuedAt
    \/ CommitExpiresAt

Spec == Init /\ [][Next]_vars

(* The byte stream the host reads back: the committed values in order. *)
RECURSIVE Flatten(_)
Flatten(chunks) ==
    IF chunks = <<>> THEN <<>> ELSE Head(chunks) \o Flatten(Tail(chunks))

(* The step machine and the summary PanicOf agree. *)
PanicAgrees ==
    /\ pc = "aborted" => panic = PanicOf(input) /\ panic # NoPanic
    /\ pc = "done" => PanicOf(input) = NoPanic /\ panic = NoPanic

(* ======================= the specification's terms ==================== *)
(* The specification's data-model conditions, written from its text.      *)
SpecTemporalOk(i) ==
    /\ i.issued_at > 0
    /\ i.current_time >= i.issued_at
    /\ (i.expires_at = 0 \/ i.current_time <= i.expires_at)

SpecVersion(d) == d[1] * 16777216 + d[2] * 65536 + d[3] * 256 + d[4]
SpecClaimCount(d) == d[5] * 16777216 + d[6] * 65536 + d[7] * 256 + d[8]

SpecMinimum(t) ==
    CASE t = 1 -> 1 [] t = 2 -> 2 [] t = 3 -> 2 [] t = 4 -> 3 [] t = 5 -> 1 [] OTHER -> 1

SpecClaimsOk(i) ==
    /\ Len(i.credential_data) >= 8
    /\ SpecVersion(i.credential_data) = 1
    /\ SpecClaimCount(i.credential_data) >= SpecMinimum(i.credential_type)

SpecSignatureOk(i) ==
    /\ Len(i.signature) >= 64
    /\ Len(i.issuer_pubkey) \in {33, 65}

(* Little-endian encodings of the modelled values, all below 256. *)
SpecLe4(v) == <<v, 0, 0, 0>>
SpecLe8(v) == <<v, 0, 0, 0, 0, 0, 0, 0>>

CommitStatements ==
    { "commit_subject", "commit_credential_type", "commit_credential_hash",
      "commit_issued_at", "commit_expires_at" }
PastClaims == pc \in {"compute_hash", "create_output", "done"} \cup CommitStatements
PastSignature == PastClaims \/ pc \in {"validate_claims", "assert_claims"}
PastTemporal == PastSignature \/ pc \in {"verify_signature", "assert_signature"}
AbortedWith(msg) == pc = "aborted" /\ panic = msg

(* The run reached the signature check / the claims check. *)
ReachesSignature(i) == i.credential_type > 0 /\ SpecTemporalOk(i)
ReachesClaims(i) == ReachesSignature(i) /\ SpecSignatureOk(i)

(* ------------------------------- C1 ----------------------------------- *)
(* C1: all-or-nothing. An aborted run has committed nothing, and a value   *)
(* is committed only for an input that passes every check of the run; so   *)
(* no state has a partial commitment followed by an abort.                 *)
C1_AllOrNothing ==
    /\ pc = "aborted" => public_values = <<>>
    /\ public_values # <<>> =>
          /\ panic = NoPanic
          /\ input.credential_type > 0
          /\ SpecTemporalOk(input)
          /\ SpecSignatureOk(input)
          /\ SpecClaimsOk(input)

(* A run that passed every check but the last one, and aborted. *)
C1_Witness ==
    /\ AbortedWith(MsgClaims)
    /\ ReachesClaims(input)
    /\ public_values = <<>>

(* ------------------------------- C2 ----------------------------------- *)
(* C2: a run that reaches the success state had an input satisfying every  *)
(* data-model invariant at once.                                           *)
C2_SuccessImpliesInvariants ==
    pc = "done" =>
        /\ input.credential_type > 0
        /\ input.issued_at > 0
        /\ input.current_time >= input.issued_at
        /\ (input.expires_at = 0 \/ input.current_time <= input.expires_at)
        /\ Len(input.credential_data) >= 8
        /\ SpecVersion(input.credential_data) = 1
        /\ SpecClaimCount(input.credential_data) >= SpecMinimum(input.credential_type)

C2_Witness ==
    /\ pc = "done"
    /\ input.expires_at # 0
    /\ input.credential_type = 4

(* ------------------------------- C3 ----------------------------------- *)
(* C3 as stated: the checks run temporal, signature, claims, and an input  *)
(* violating one of them aborts with the reason of the earliest violated   *)
(* one in that order.                                                      *)
C3_TemporalFirst ==
    (pc = "aborted" /\ (~SpecTemporalOk(input) \/ ~SpecSignatureOk(input) \/ ~SpecClaimsOk(input))) =>
        panic = IF input.issued_at = 0 THEN MsgIssuance
                ELSE IF input.current_time < input.issued_at THEN MsgClockSkew
                ELSE IF input.expires_at # 0 /\ input.current_time > input.expires_at THEN MsgExpired
                ELSE IF ~SpecSignatureOk(input) THEN MsgSignature
                ELSE MsgClaims

(* C3 amended: the credential-type check runs first, then the temporal     *)
(* checks, then the signature check, then the claims check; the abort      *)
(* reason is that of the earliest violated check in this order.            *)
C3_TypeFirstOrder ==
    pc = "aborted" =>
        panic = IF input.credential_type = 0 THEN MsgCredentialType
                ELSE IF input.issued_at = 0 THEN MsgIssuance
                ELSE IF input.current_time < input.issued_at THEN MsgClockSkew
                ELSE IF input.expires_at # 0 /\ input.current_time > input.expires_at THEN MsgExpired
                ELSE IF ~SpecSignatureOk(input) THEN MsgSignature
                ELSE MsgClaims

(* A 63-byte signature together with version /= 1: the signature reason. *)
C3_Witness ==
    /\ AbortedWith(MsgSignature)
    /\ Len(input.signature) = 63
    /\ Len(input.credential_data) >= 8
    /\ SpecVersion(input.credential_data) # 1

(* ------------------------------- C4 ----------------------------------- *)
(* C4 as stated: issued_at = 0 aborts with the issuance reason whatever    *)
(* the other fields are.                                                   *)
C4_IssuanceRegardless ==
    (input.issued_at = 0 /\ pc \in {"done", "aborted"}) => AbortedWith(MsgIssuance)

(* C4 amended: with issued_at = 0 the run never gets past the issuance     *)
(* check; it aborts with the issuance reason when credential_type > 0 and  *)
(* with the credential-type reason when credential_type = 0.               *)
C4_IssuanceAfterType ==
    input.issued_at = 0 =>
        /\ pc \in {"assert_credential_type", "assert_issued_at", "aborted"}
        /\ pc = "aborted" =>
              panic = IF input.credential_type = 0 THEN MsgCredentialType ELSE MsgIssuance

C4_Witness ==
    /\ AbortedWith(MsgIssuance)
    /\ input.issued_at = 0
    /\ input.credential_type > 0
    /\ SpecSignatureOk(input)
    /\ SpecClaimsOk(input)

(* ------------------------------- C5 ----------------------------------- *)
(* C5 as stated: a version /= 1 failure is never reported with the reason  *)
(* of an insufficient-claims failure (the run on the same input with       *)
(* version-1 data whose claim_count is below the minimum).                 *)
C5_DistinctReasons ==
    (/\ pc = "aborted"
     /\ ReachesClaims(input)
     /\ Len(input.credential_data) >= 8
     /\ SpecVersion(input.credential_data) # 1) =>
        \A d \in CredentialDatas :
            (/\ Len(d) >= 8
             /\ SpecVersion(d) = 1
             /\ SpecClaimCount(d) < SpecMinimum(input.credential_type)) =>
                PanicOf([input EXCEPT !.credential_data = d]) # panic

(* C5 amended: the claims check reports one failure reason; short data,    *)
(* version /= 1 (whatever claim_count is) and claim_count below the        *)
(* minimum all stop the run at the claims check with that same reason.     *)
C5_SingleReason ==
    (ReachesClaims(input) /\ ~SpecClaimsOk(input)) =>
        /\ ~PastClaims
        /\ pc = "aborted" => panic = MsgClaims

(* version /= 1 with a claim_count that would suffice. *)
C5_Witness ==
    /\ AbortedWith(MsgClaims)
    /\ Len(input.credential_data) >= 8
    /\ SpecVersion(input.credential_data) # 1
    /\ SpecClaimCount(input.credential_data) >= SpecMinimum(input.credential_type)

(* ------------------------------- C6 ----------------------------------- *)
(* C6: once the claims check has been evaluated on version-1 data of at    *)
(* least 8 bytes, its result is exactly claim_count >= m(credential_type); *)
(* nothing after the 8-byte header enters the result.                      *)
ClaimsEvaluated == pc = "assert_claims" \/ PastClaims \/ AbortedWith(MsgClaims)

C6_ClaimsThreshold ==
    (/\ ClaimsEvaluated
     /\ Len(input.credential_data) >= 8
     /\ SpecVersion(input.credential_data) = 1) =>
        (claims_valid <=>
            SpecClaimCount(input.credential_data) >= SpecMinimum(input.credential_type))

(* type 2 with claim_count 1 and a non-empty payload fails. *)
C6_Witness ==
    /\ AbortedWith(MsgClaims)
    /\ input.credential_type = 2
    /\ Len(input.credential_data) > 8
    /\ SpecVersion(input.credential_data) = 1
    /\ SpecClaimCount(input.credential_data) = 1
    /\ ~claims_valid

(* ------------------------------- C7 ----------------------------------- *)
(* C7: for a run that reaches the temporal checks (credential_type > 0),   *)
(* the run gets past them exactly when issued_at > 0, current_time >=      *)
(* issued_at and (expires_at = 0 or current_time <= expires_at); the       *)
(* expiry reason is given exactly for expires_at /= 0 and current_time >   *)
(* expires_at, never for expires_at = 0.                                   *)
TemporalAbort == pc = "aborted" /\ panic \in {MsgIssuance, MsgClockSkew, MsgExpired}

C7_TemporalBoundaries ==
    input.credential_type > 0 =>
        /\ (PastTemporal \/ AbortedWith(MsgSignature) \/ AbortedWith(MsgClaims))
              => SpecTemporalOk(input)
        /\ SpecTemporalOk(input) => ~TemporalAbort
        /\ ~SpecTemporalOk(input) => (pc = "aborted" => TemporalAbort)
        /\ (/\ pc = "aborted"
            /\ input.issued_at > 0
            /\ input.current_time >= input.issued_at
            /\ input.expires_at # 0
            /\ input.current_time > input.expires_at) => panic = MsgExpired
        /\ input.expires_at = 0 => panic # MsgExpired

(* current_time = expires_at + 1 aborts as expired. *)
C7_Witness ==
    /\ AbortedWith(MsgExpired)
    /\ input.expires_at # 0
    /\ input.current_time = input.expires_at + 1
    /\ input.issued_at > 0

SignatureEvaluated ==
    pc = "assert_signature" \/ PastSignature \/ AbortedWith(MsgSignature) \/ AbortedWith(MsgClaims)

C10_OutputFunctionOfInput ==
    pc = "done" =>
        LET digest == Sha256(input.subject \o <<0, 0, 0, input.credential_type>>
                             \o input.credential_data \o input.issuer_pubkey)
        IN  /\ output = [subject |-> input.subject,
                         credential_type |-> input.credential_type,
                         credential_hash |-> digest,
                         issued_at |-> input.issued_at,
                         expires_at |-> input.expires_at]
            /\ Flatten(public_values) =
                  input.subject \o SpecLe4(input.credential_type) \o digest
                  \o SpecLe8(input.issued_at) \o SpecLe8(input.expires_at)

C10_Witness ==
    /\ pc = "done"
    /\ input.credential_type = 2
    /\ Len(input.credential_data) > 8
    /\ Len(input.signature) > 64
    /\ output.credential_hash = credential_hash
====
